---- MODULE Spec2Model ----
(***************************************************************************)
(* Verification model of torchmultimodal:                                  *)
(*   transforms/image_masking_transform.py  (map_pixels, MaskingGenerator, *)
(*       TwoWayResize, TwoWayRandomResizedCrop,                            *)
(*       MaskedImageModelingTransform)                                     *)
(*   models/mdetr.py  (Transformer, TransformerEncoder, TransformerDecoder) *)
(* Each program is a state machine over its own group of variables; the    *)
(* specification of one program keeps the variables of the others idle.    *)
(***************************************************************************)
EXTENDS Integers, Sequences, FiniteSets, TLC

VARIABLES
    \* ---- MaskingGenerator (image_masking_transform.py) ----
    gen,               \* the generator's fields, set by __init__
    mpc,               \* position: "idle", "loop", "mask", "ret", "done", "raised"
    mask,              \* the grid of __call__: the set of cells equal to 1
    mask_count,        \* __call__'s running count
    max_mask_patches,  \* __call__'s remaining budget, the argument of _mask
    delta,             \* _mask's delta
    attempt,           \* number of iterations of _mask's for loop already run
    placed,            \* the block accepted by the last attempt, or NoBlock
    \* ---- Transformer.forward and TransformerDecoder.forward (mdetr.py) ----
    tcfg,              \* the Transformer's fields, set by __init__
    tpc,               \* position in forward
    inp,               \* the sizes of the arguments of the current call
    src, tmask, query_embed, pos_embed, text_memory, text_attention_mask,
    img_memory, tgt,   \* forward's locals: a tensor's shape, or None
    dec,               \* the arguments of the decoder call
    output,            \* TransformerDecoder.forward's output
    intermediate,      \* TransformerDecoder.forward's intermediate list
    layer,             \* number of decoder layers already applied
    hs,                \* the value forward returns
    err,               \* the exception that ended the call, or "none"
    \* ---- TwoWayResize / TwoWayRandomResizedCrop ----
    wcfg,              \* the transform's fields, set by __init__
    wpc,               \* "idle" or "returned"
    wimg,              \* the image the transform was called with
    out1, out2,        \* the two images returned
    \* ---- map_pixels ----
    ppc,               \* position in map_pixels
    px,                \* the argument x
    pout,              \* the tensor returned
    perr,              \* the exception raised, or "none"
    \* ---- MaskedImageModelingTransform ----
    icfg,              \* the transform's fields, set by __init__
    ipc,               \* position in __call__
    images,            \* the argument of __call__
    idx,               \* number of iterations of the for loop already run
    ioutput,           \* __call__'s output mapping, then the value returned
    generator_calls    \* number of calls of masked_position_generator so far

mvars == <<gen, mpc, mask, mask_count, max_mask_patches, delta, attempt, placed>>

tvars == <<tcfg, tpc, inp, src, tmask, query_embed, pos_embed, text_memory,
           text_attention_mask, img_memory, tgt, dec, output, intermediate,
           layer, hs, err>>

wvars == <<wcfg, wpc, wimg, out1, out2>>

pvars == <<ppc, px, pout, perr>>

ivars == <<icfg, ipc, images, idx, ioutput, generator_calls>>

vars == <<mvars, tvars, wvars, pvars, ivars>>

\* what a step of one program leaves alone
notMask == <<tvars, wvars, pvars, ivars>>
notTransformer == <<mvars, wvars, pvars, ivars>>
notTwoWay == <<mvars, tvars, pvars, ivars>>
notPixels == <<mvars, tvars, wvars, ivars>>
notMIM == <<mvars, tvars, wvars, pvars>>

(***************************************************************************)
(* Bounds of the model.                                                    *)
(***************************************************************************)
MaxDim == 3        \* grid height and width range over 1..MaxDim
MaxNum == 3        \* num_masking_patches ranges over 0..MaxNum
MaxMin == 1        \* min_num_patches ranges over 0..MaxMin
MaxB == 2          \* batch sizes range over 1..MaxB
MaxHW == 2         \* feature map height and width range over 1..MaxHW
MaxQ == 2          \* num_queries ranges over 1..MaxQ
MaxT == 2          \* text lengths range over 0..MaxT
MaxLayers == 2     \* num_decoder_layers ranges over 0..MaxLayers
MaxD == 2          \* d_model ranges over 1..MaxD
MaxSize == 2       \* size and second_size range over 1..MaxSize
MaxImg == 2        \* source image height and width range over 1..MaxImg
MaxShapeDim == 2   \* the dimensions of map_pixels' argument range over 1..MaxShapeDim
MaxPix == 10       \* pixel values range over 0..MaxPix tenths
MaxBatch == 2      \* a list of images holds 0..MaxBatch images
MaxWindow == 2     \* mask_window_size ranges over 1..MaxWindow
AreaDen == 4       \* target areas are drawn in steps of 1 / AreaDen

Min(a, b) == IF a <= b THEN a ELSE b
Max(a, b) == IF a <= b THEN b ELSE a

(***************************************************************************)
(* MaskingGenerator                                                        *)
(***************************************************************************)

\* range(10) in _mask
NumAttempts == 10

\* min_aspect = 0.3 and max_aspect = 1 / min_aspect, as fractions <<p, q>>.
\* exp(uniform(log 0.3, log 1/0.3)) lies between them; the model draws from
\* these sample points of the interval.
AspectRatios == { <<3, 10>>, <<2, 5>>, <<1, 2>>, <<3, 5>>, <<3, 4>>, <<1, 1>>,
                  <<4, 3>>, <<5, 3>>, <<2, 1>>, <<5, 2>>, <<10, 3>> }

\* mutant of Uniform: only an ascending interval has values
UniformAscending(a, b) == (AreaDen * a) .. (AreaDen * b)

\* random.uniform(a, b) = a + (b - a) * random(): a value between a and b,
\* whichever of the two is the larger.  Returned as numerators over AreaDen.
Uniform(a, b) == (AreaDen * Min(a, b)) .. (AreaDen * Max(a, b))

\* int(round(math.sqrt(n / d))) with Python's round-half-to-even.
RoundSqrt(n, d) ==
    CHOOSE k \in 0 .. ((n \div d) + 1) :
        /\ \/ k = 0
           \/ (2 * k - 1) * (2 * k - 1) * d < 4 * n
           \/ (2 * k - 1) * (2 * k - 1) * d = 4 * n /\ k % 2 = 0
        /\ \/ 4 * n < (2 * k + 1) * (2 * k + 1) * d
           \/ 4 * n = (2 * k + 1) * (2 * k + 1) * d /\ k % 2 = 0

\* h = int(round(math.sqrt(target_area * aspect_ratio)))
BlockH(a, r) == RoundSqrt(a * r[1], AreaDen * r[2])
\* w = int(round(math.sqrt(target_area / aspect_ratio)))
BlockW(a, r) == RoundSqrt(a * r[2], AreaDen * r[1])

\* lines 72-75: the block shapes <<h, w>> one attempt can draw, by
\* min_num_patches and the budget passed to _mask
DrawnShapes ==
    [lo \in 0 .. MaxMin, hi \in 0 .. MaxNum |->
        { <<BlockH(a, r), BlockW(a, r)>> : a \in Uniform(lo, hi), r \in AspectRatios }]

\* the cells of mask[top : top + h, left : left + w]
Block(top, left, h, w) == (top .. (top + h - 1)) \X (left .. (left + w - 1))

NoBlock == [top |-> -1, left |-> -1, h |-> 0, w |-> 0]

\* the configurations of __init__: input_size (height, width),
\* num_masking_patches, min_num_patches, max_num_patches (None: the target)
Generators ==
    [height : 1 .. MaxDim, width : 1 .. MaxDim,
     num_masking_patches : 0 .. MaxNum,
     min_num_patches : 0 .. MaxMin,
     max_num_patches : 0 .. MaxNum]

\* no generator: the state of the generator's variables in the
\* specifications of the other programs
NoGenerator ==
    [height |-> 0, width |-> 0, num_masking_patches |-> 0,
     min_num_patches |-> 0, max_num_patches |-> 0]

MaskFresh ==
    /\ mpc = "idle"
    /\ mask = {}
    /\ mask_count = 0
    /\ max_mask_patches = 0
    /\ delta = 0
    /\ attempt = 0
    /\ placed = NoBlock

MaskInit == gen \in Generators /\ MaskFresh

MaskIdle == gen = NoGenerator /\ MaskFresh

\* __call__, lines 94-95: a fresh grid and a zero count
Call ==
    /\ mpc \in {"idle", "done"}
    /\ mask' = {}
    /\ mask_count' = 0
    /\ max_mask_patches' = 0
    /\ delta' = 0
    /\ attempt' = 0
    /\ placed' = NoBlock
    /\ mpc' = "loop"
    /\ UNCHANGED gen
    /\ UNCHANGED notMask

\* the remaining budget of lines 97-98
Budget(count) ==
    Min(gen.num_masking_patches - count, gen.max_num_patches)

\* mutant of LoopTest: the loop stops one patch early
LoopTestOffByOne(count) == count + 1 < gen.num_masking_patches

\* the while test of line 96
LoopTest(count) == count < gen.num_masking_patches

\* __call__, lines 96-100: the while test, the budget, the call of _mask
CallLoop ==
    /\ mpc = "loop"
    /\ IF LoopTest(mask_count)
       THEN /\ max_mask_patches' = Budget(mask_count)
            /\ delta' = 0
            /\ attempt' = 0
            /\ mpc' = "mask"
       ELSE /\ mpc' = "done"
            /\ UNCHANGED <<max_mask_patches, delta, attempt>>
    /\ UNCHANGED <<gen, mask, mask_count, placed>>
    /\ UNCHANGED notMask

\* mutant of Acceptable: the budget is not tested
AcceptableNoBudget(new) == 0 < new

\* line 82: the overlap test on the net-new cell count
Acceptable(new) == 0 < new /\ new <= max_mask_patches

\* line 76: the block must be smaller than the grid in both directions
Fits(h, w) == w < gen.width /\ h < gen.height

\* mutant of LoopStops: an accepted block does not end the for loop
LoopStopsAtEnd(d, n) == n >= NumAttempts

\* lines 89-90 and the end of range(10): does the for loop stop
LoopStops(d, n) == d > 0 \/ n >= NumAttempts

\* math.sqrt raises ValueError on a negative argument (lines 74-75); the
\* aspect ratio is positive, so this is the sign of the smallest area
SqrtDefined(lo, hi) == Min(lo, hi) >= 0

\* _mask, one iteration of the for loop (lines 71-90)
MaskAttempt ==
    /\ mpc = "mask"
    /\ attempt < NumAttempts
    /\ IF ~SqrtDefined(gen.min_num_patches, max_mask_patches)
       THEN /\ mpc' = "raised"
            /\ UNCHANGED <<mask, delta, attempt, placed>>
       ELSE /\ \E s \in DrawnShapes[gen.min_num_patches, max_mask_patches] :
                 LET h == s[1]
                     w == s[2]
                 IN  IF Fits(h, w)
                     THEN \E top \in 0 .. (gen.height - h), left \in 0 .. (gen.width - w) :
                            LET new == Block(top, left, h, w) \ mask
                            IN  IF Acceptable(Cardinality(new))
                                THEN /\ mask' = mask \cup new
                                     /\ delta' = delta + Cardinality(new)
                                     /\ placed' = [top |-> top, left |-> left,
                                                   h |-> h, w |-> w]
                                ELSE /\ UNCHANGED <<mask, delta>>
                                     /\ placed' = NoBlock
                     ELSE /\ UNCHANGED <<mask, delta>>
                          /\ placed' = NoBlock
            /\ attempt' = attempt + 1
            /\ mpc' = IF LoopStops(delta', attempt') THEN "ret" ELSE "mask"
    /\ UNCHANGED <<gen, mask_count, max_mask_patches>>
    /\ UNCHANGED notMask

\* mutant of Stalled: a zero delta does not leave the loop
StalledNever(d) == FALSE

\* line 101: no progress
Stalled(d) == d = 0

\* __call__, lines 101-104: the result of _mask
MaskReturn ==
    /\ mpc = "ret"
    /\ IF Stalled(delta)
       THEN /\ mpc' = "done"
            /\ UNCHANGED mask_count
       ELSE /\ mask_count' = mask_count + delta
            /\ mpc' = "loop"
    \* the frame of _mask is gone
    /\ attempt' = 0
    /\ placed' = NoBlock
    /\ UNCHANGED <<gen, mask, max_mask_patches, delta>>
    /\ UNCHANGED notMask

MaskNext == Call \/ CallLoop \/ MaskAttempt \/ MaskReturn

(***************************************************************************)
(* Tensors of mdetr.py: a tensor is its shape; None is None.               *)
(***************************************************************************)

None == [none |-> TRUE, shape |-> <<>>]
Tensor(sh) == [none |-> FALSE, shape |-> sh]

RECURSIVE Prod(_)
Prod(sh) == IF sh = <<>> THEN 1 ELSE Head(sh) * Prod(Tail(sh))

\* Tensor.flatten(start): the dimensions from start on become one
Flatten(sh, start) ==
    SubSeq(sh, 1, start) \o << Prod(SubSeq(sh, start + 1, Len(sh))) >>

\* Tensor.permute(*perm), dimensions counted from 0
Permute(sh, perm) == [i \in 1 .. Len(perm) |-> sh[perm[i] + 1]]

\* Tensor.unsqueeze(dim)
Unsqueeze(sh, dim) == SubSeq(sh, 1, dim) \o <<1>> \o SubSeq(sh, dim + 1, Len(sh))

\* Tensor.repeat(*reps)
Repeat(sh, reps) == [i \in 1 .. Len(sh) |-> sh[i] * reps[i]]

\* Tensor.transpose(i, j), dimensions counted from 0
Transpose(sh, i, j) ==
    [k \in 1 .. Len(sh) |-> IF k = i + 1 THEN sh[j + 1]
                            ELSE IF k = j + 1 THEN sh[i + 1] ELSE sh[k]]

\* torch.cat([a, b], dim) accepts tensors that agree outside dim
CatOK(a, b, dim) ==
    /\ ~a.none /\ ~b.none
    /\ Len(a.shape) = Len(b.shape)
    /\ dim < Len(a.shape)
    /\ \A i \in 1 .. Len(a.shape) : i # dim + 1 => a.shape[i] = b.shape[i]

Cat(a, b, dim) ==
    Tensor([a.shape EXCEPT ![dim + 1] = a.shape[dim + 1] + b.shape[dim + 1]])

\* torch.zeros_like
ZerosLike(a) == Tensor(a.shape)

\* len(tensor): the size of the first dimension
TensorLen(a) == a.shape[1]

\* tensor[-n:]: the trailing n positions of the first dimension; -0 is 0, so
\* n = 0 takes the whole tensor
SliceLast(a, n) ==
    Tensor([a.shape EXCEPT ![1] = IF n = 0 THEN a.shape[1] ELSE Min(n, a.shape[1])])

\* a + b with broadcasting
PadLeft(sh, n) ==
    [i \in 1 .. n |-> IF i <= n - Len(sh) THEN 1 ELSE sh[i - (n - Len(sh))]]

AddOK(a, b) ==
    /\ ~a.none /\ ~b.none
    /\ LET n == Max(Len(a.shape), Len(b.shape))
           x == PadLeft(a.shape, n)
           y == PadLeft(b.shape, n)
       IN  \A i \in 1 .. n : x[i] = y[i] \/ x[i] = 1 \/ y[i] = 1

Add(a, b) ==
    LET n == Max(Len(a.shape), Len(b.shape))
        x == PadLeft(a.shape, n)
        y == PadLeft(b.shape, n)
    IN  Tensor([i \in 1 .. n |-> IF x[i] = 1 THEN y[i] ELSE x[i]])

(***************************************************************************)
(* Transformer                                                             *)
(***************************************************************************)

\* Transformer.__init__: the flags, the decoder depth, the width; the
\* decoder always gets a LayerNorm as its final normalization (line 138)
Transformers ==
    [pass_pos_and_query : BOOLEAN,
     return_intermediate_dec : BOOLEAN,
     num_decoder_layers : 0 .. MaxLayers,
     d_model : 1 .. MaxD,
     decoder_norm : {TRUE}]

NoTransformer ==
    [pass_pos_and_query |-> TRUE, return_intermediate_dec |-> FALSE,
     num_decoder_layers |-> 0, d_model |-> 0, decoder_norm |-> FALSE]

NoInput == [B |-> 0, H |-> 0, W |-> 0, Q |-> 0, T |-> 0, Bt |-> 0]

NoCall ==
    [tgt |-> None, memory |-> None, memory_key_padding_mask |-> None,
     pos |-> None, query_pos |-> None]

\* a decoder value: its shape and what was applied to tgt to get it
NoValue == [shape |-> <<>>, term |-> <<>>]

NoResult == [shape |-> <<>>, slices |-> <<>>]

TransformerFresh ==
    /\ tpc = "idle"
    /\ inp = NoInput
    /\ src = None /\ tmask = None /\ query_embed = None /\ pos_embed = None
    /\ text_memory = None /\ text_attention_mask = None
    /\ img_memory = None /\ tgt = None
    /\ dec = NoCall
    /\ output = NoValue
    /\ intermediate = <<>>
    /\ layer = 0
    /\ hs = NoResult
    /\ err = "none"

TransformerInit == tcfg \in Transformers /\ TransformerFresh

TransformerIdle == tcfg = NoTransformer /\ TransformerFresh

\* an exception leaves forward: the call is over
Raise(e) ==
    /\ tpc' = "raised"
    /\ err' = e

\* the sizes of the arguments: src [B, d_model, H, W], mask [B, H, W],
\* query_embed [Q, d_model], pos_embed [B, d_model, H, W],
\* text_memory [T, Bt, d_model], text_attention_mask [Bt, T]
Inputs ==
    [B : 1 .. MaxB, H : 1 .. MaxHW, W : 1 .. MaxHW, Q : 1 .. MaxQ,
     T : 0 .. MaxT, Bt : 1 .. MaxB]

\* Transformer.forward, lines 153-168: the arguments, flattened.  forward
\* keeps nothing from one call to the next, so a behaviour is one call.
Forward ==
    /\ tpc = "idle"
    /\ \E i \in Inputs :
         LET d == tcfg.d_model
             bs == i.B
         IN  /\ inp' = i
             /\ src' = Tensor(Permute(Flatten(<<i.B, d, i.H, i.W>>, 2), <<2, 0, 1>>))
             /\ pos_embed' =
                  Tensor(Permute(Flatten(<<i.B, d, i.H, i.W>>, 2), <<2, 0, 1>>))
             /\ query_embed' = Tensor(Repeat(Unsqueeze(<<i.Q, d>>, 1), <<1, bs, 1>>))
             /\ tmask' = Tensor(Flatten(<<i.B, i.H, i.W>>, 1))
             /\ text_memory' = Tensor(<<i.T, i.Bt, d>>)
             /\ text_attention_mask' = Tensor(<<i.Bt, i.T>>)
    /\ img_memory' = None
    /\ tgt' = None
    /\ dec' = NoCall
    /\ output' = NoValue
    /\ intermediate' = <<>>
    /\ layer' = 0
    /\ hs' = NoResult
    /\ err' = "none"
    /\ tpc' = "flat"
    /\ UNCHANGED tcfg
    /\ UNCHANGED notTransformer

\* Transformer.forward, lines 170-178: the decoder target and the mode
SelectMode ==
    /\ tpc = "flat"
    /\ IF tcfg.pass_pos_and_query
       THEN /\ tgt' = ZerosLike(query_embed)
            /\ UNCHANGED <<src, query_embed, pos_embed>>
            /\ tpc' = "mode"
            /\ UNCHANGED err
       ELSE IF AddOK(src, pos_embed)
            THEN /\ src' = Add(src, pos_embed)
                 /\ tgt' = query_embed
                 /\ query_embed' = None
                 /\ pos_embed' = None
                 /\ tpc' = "mode"
                 /\ UNCHANGED err
            ELSE /\ Raise("RuntimeError")
                 /\ UNCHANGED <<src, tgt, query_embed, pos_embed>>
    /\ UNCHANGED <<tcfg, inp, tmask, text_memory, text_attention_mask, img_memory,
                   dec, output, intermediate, layer, hs>>
    /\ UNCHANGED notTransformer

\* mutant of PadPos: the positional embedding is not padded over the text
PadPosUnpadded(pos, text) == pos

\* line 185: the positional embedding, zero-padded over the text positions
PadPos(pos, text) == Cat(pos, ZerosLike(text), 0)

\* Transformer.forward, lines 181-185: the fused sequence, mask and positions
Concat ==
    /\ tpc = "mode"
    /\ IF ~CatOK(src, text_memory, 0)
       THEN Raise("RuntimeError") /\ UNCHANGED <<src, tmask, pos_embed>>
       ELSE IF ~CatOK(tmask, text_attention_mask, 1)
       THEN Raise("RuntimeError") /\ UNCHANGED <<src, tmask, pos_embed>>
       ELSE IF pos_embed.none
       THEN Raise("TypeError") /\ UNCHANGED <<src, tmask, pos_embed>>
       ELSE IF ~CatOK(pos_embed, ZerosLike(text_memory), 0)
       THEN Raise("RuntimeError") /\ UNCHANGED <<src, tmask, pos_embed>>
       ELSE /\ src' = Cat(src, text_memory, 0)
            /\ tmask' = Cat(tmask, text_attention_mask, 1)
            /\ pos_embed' = PadPos(pos_embed, text_memory)
            /\ tpc' = "fused"
            /\ UNCHANGED err
    /\ UNCHANGED <<tcfg, inp, query_embed, text_memory, text_attention_mask,
                   img_memory, tgt, dec, output, intermediate, layer, hs>>
    /\ UNCHANGED notTransformer

\* what the attention of a layer accepts: a sequence [S, B, d_model], a
\* key-padding mask [B, S] or None, a positional embedding to add or None
AttentionOK(seq, key_padding_mask, pos) ==
    /\ ~seq.none
    /\ Len(seq.shape) = 3
    /\ seq.shape[3] = tcfg.d_model
    /\ key_padding_mask.none \/ key_padding_mask.shape = <<seq.shape[2], seq.shape[1]>>
    /\ pos.none \/ (AddOK(seq, pos) /\ Add(seq, pos) = seq)

\* TransformerEncoder.forward, lines 223-244: every layer keeps the shape
EncoderForward(s, key_padding_mask, pos) == Tensor(s.shape)

\* Transformer.forward, line 187
Encode ==
    /\ tpc = "fused"
    /\ IF AttentionOK(src, tmask, pos_embed)
       THEN /\ img_memory' = EncoderForward(src, tmask, pos_embed)
            /\ tpc' = "encoded"
            /\ UNCHANGED err
       ELSE /\ Raise("RuntimeError")
            /\ UNCHANGED img_memory
    /\ UNCHANGED <<tcfg, inp, src, tmask, query_embed, pos_embed, text_memory,
                   text_attention_mask, tgt, dec, output, intermediate, layer, hs>>
    /\ UNCHANGED notTransformer

\* mutant of AssertOK: the assertion compares the sequence lengths (axis 0)
AssertOnSequenceLength(a, b, c) ==
    a.shape[1] = b.shape[1] /\ b.shape[1] = c.shape[1]

\* lines 190 and 204: img_memory.shape[1] == text_memory.shape[1] == tgt.shape[1]
AssertOK(a, b, c) ==
    a.shape[2] = b.shape[2] /\ b.shape[2] = c.shape[2]

\* Transformer.forward, lines 189-190: the refined text memory, the assertion
SplitAssert ==
    /\ tpc = "encoded"
    /\ LET text == SliceLast(img_memory, TensorLen(text_memory))
       IN  IF AssertOK(img_memory, text, tgt)
           THEN /\ text_memory' = text
                /\ tpc' = "split"
                /\ UNCHANGED err
           ELSE /\ Raise("AssertionError")
                /\ UNCHANGED text_memory
    /\ UNCHANGED <<tcfg, inp, src, tmask, query_embed, pos_embed,
                   text_attention_mask, img_memory, tgt, dec, output,
                   intermediate, layer, hs>>
    /\ UNCHANGED notTransformer

\* Transformer.forward, lines 193-204: src = None, the mode logic again, the
\* assertion again.  With pass_pos_and_query = False, src and pos_embed are
\* None here and src + 0.1 * pos_embed raises TypeError.
SelectModeAgain ==
    /\ tpc = "split"
    /\ IF tcfg.pass_pos_and_query
       THEN IF query_embed.none
            THEN Raise("TypeError") /\ UNCHANGED <<src, tgt, query_embed, pos_embed>>
            ELSE IF AssertOK(img_memory, text_memory, ZerosLike(query_embed))
            THEN /\ src' = None
                 /\ tgt' = ZerosLike(query_embed)
                 /\ tpc' = "ready"
                 /\ UNCHANGED <<query_embed, pos_embed, err>>
            ELSE Raise("AssertionError") /\ UNCHANGED <<src, tgt, query_embed, pos_embed>>
       ELSE IF ~AddOK(None, pos_embed)
            THEN Raise("TypeError") /\ UNCHANGED <<src, tgt, query_embed, pos_embed>>
            ELSE IF AssertOK(img_memory, text_memory, query_embed)
            THEN /\ src' = Add(None, pos_embed)
                 /\ tgt' = query_embed
                 /\ query_embed' = None
                 /\ pos_embed' = None
                 /\ tpc' = "ready"
                 /\ UNCHANGED err
            ELSE Raise("AssertionError") /\ UNCHANGED <<src, tgt, query_embed, pos_embed>>
    /\ UNCHANGED <<tcfg, inp, tmask, text_memory, text_attention_mask, img_memory,
                   dec, output, intermediate, layer, hs>>
    /\ UNCHANGED notTransformer

(***************************************************************************)
(* TransformerDecoder                                                      *)
(***************************************************************************)

\* mutant of ApplyLayer: the layer's output is normalized before it is passed on
ApplyLayerNormed(v) == [shape |-> v.shape, term |-> v.term \o <<"layer", "norm">>]

\* one decoder layer (TransformerDecoderLayer.forward): same shape, one more
\* layer applied
ApplyLayer(v) == [shape |-> v.shape, term |-> Append(v.term, "layer")]

\* self.norm(v)
Norm(v) == [shape |-> v.shape, term |-> Append(v.term, "norm")]

\* list.pop()
Pop(l) == SubSeq(l, 1, Len(l) - 1)

\* mutant of Recapture: the final output is appended without the pop
RecaptureNoPop(l, v) == Append(l, v)

\* lines 287-288: the last captured entry is replaced by the final output
Recapture(l, v) == Append(Pop(l), v)

\* what TransformerDecoderLayer.forward accepts (lines 415-431)
DecoderLayerOK(d, v) ==
    /\ AttentionOK(Tensor(v.shape), None, d.query_pos)
    /\ AttentionOK(d.memory, d.memory_key_padding_mask, d.pos)
    /\ d.memory.shape[2] = v.shape[2]

\* Transformer.forward, lines 206-212, and TransformerDecoder.forward, lines
\* 266-268: the decoder is entered
DecoderCall ==
    /\ tpc = "ready"
    /\ dec' = [tgt |-> tgt, memory |-> img_memory,
               memory_key_padding_mask |-> tmask,
               pos |-> pos_embed, query_pos |-> query_embed]
    /\ output' = [shape |-> tgt.shape, term |-> <<"tgt">>]
    /\ intermediate' = <<>>
    /\ layer' = 0
    /\ tpc' = "dec"
    /\ UNCHANGED <<tcfg, inp, src, tmask, query_embed, pos_embed, text_memory,
                   text_attention_mask, img_memory, tgt, hs, err>>
    /\ UNCHANGED notTransformer

\* TransformerDecoder.forward, lines 270-282: one iteration over self.layers
DecoderLayer ==
    /\ tpc = "dec"
    /\ layer < tcfg.num_decoder_layers
    /\ IF ~DecoderLayerOK(dec, output)
       THEN Raise("RuntimeError") /\ UNCHANGED <<output, intermediate, layer>>
       ELSE IF tcfg.return_intermediate_dec /\ ~tcfg.decoder_norm
       THEN Raise("TypeError") /\ UNCHANGED <<output, intermediate, layer>>
       ELSE /\ output' = ApplyLayer(output)
            /\ intermediate' = IF tcfg.return_intermediate_dec
                               THEN Append(intermediate, Norm(output'))
                               ELSE intermediate
            /\ layer' = layer + 1
            /\ UNCHANGED <<tpc, err>>
    /\ UNCHANGED <<tcfg, inp, src, tmask, query_embed, pos_embed, text_memory,
                   text_attention_mask, img_memory, tgt, dec, hs>>
    /\ UNCHANGED notTransformer

\* torch.stack(l): a new leading axis of size len(l)
Stack(l) == [shape |-> <<Len(l)>> \o l[1].shape,
             slices |-> [i \in 1 .. Len(l) |-> l[i].term]]

\* lines 290-293: what the decoder returns
DecoderResult(l, v) ==
    IF tcfg.return_intermediate_dec
    THEN Stack(l)
    ELSE [shape |-> v.shape, slices |-> <<v.term>>]

\* TransformerDecoder.forward, lines 284-293: the final normalization and
\* the value returned
DecoderFinish ==
    /\ tpc = "dec"
    /\ layer = tcfg.num_decoder_layers
    /\ LET out == IF tcfg.decoder_norm THEN Norm(output) ELSE output
       IN  IF tcfg.decoder_norm /\ tcfg.return_intermediate_dec /\ intermediate = <<>>
           THEN \* pop from an empty list
                Raise("IndexError") /\ UNCHANGED <<output, intermediate, hs>>
           ELSE IF tcfg.return_intermediate_dec /\ intermediate = <<>>
           THEN \* stack of an empty list
                Raise("RuntimeError") /\ UNCHANGED <<output, intermediate, hs>>
           ELSE /\ output' = out
                /\ intermediate' =
                     IF tcfg.decoder_norm /\ tcfg.return_intermediate_dec
                     THEN Recapture(intermediate, out)
                     ELSE intermediate
                /\ hs' = DecoderResult(intermediate', out)
                /\ tpc' = "decoded"
                /\ UNCHANGED err
    /\ UNCHANGED <<tcfg, inp, src, tmask, query_embed, pos_embed, text_memory,
                   text_attention_mask, img_memory, tgt, dec, layer>>
    /\ UNCHANGED notTransformer

\* Transformer.forward, line 213: hs.transpose(1, 2)
Return ==
    /\ tpc = "decoded"
    /\ IF Len(hs.shape) >= 3
       THEN /\ hs' = [hs EXCEPT !.shape = Transpose(hs.shape, 1, 2)]
            /\ tpc' = "returned"
            /\ UNCHANGED err
       ELSE Raise("IndexError") /\ UNCHANGED hs
    /\ UNCHANGED <<tcfg, inp, src, tmask, query_embed, pos_embed, text_memory,
                   text_attention_mask, img_memory, tgt, dec, output,
                   intermediate, layer>>
    /\ UNCHANGED notTransformer

TransformerNext ==
    \/ Forward \/ SelectMode \/ Concat \/ Encode \/ SplitAssert
    \/ SelectModeAgain \/ DecoderCall \/ DecoderLayer \/ DecoderFinish \/ Return

(***************************************************************************)
(* TwoWayResize and TwoWayRandomResizedCrop                                *)
(* An image is its size and the renders that produced it from the source   *)
(* image: a render resamples a region of its input to a size with a kernel. *)
(***************************************************************************)

Interpolations == {"bilinear", "bicubic"}
SecondInterpolations == {"lanczos", "bicubic"}

\* the fields set by TwoWayResize.__init__ / TwoWayRandomResizedCrop.__init__;
\* an int size is stored as (size, size)
TwoWays ==
    [kind : {"TwoWayResize", "TwoWayRandomResizedCrop"},
     size : 1 .. MaxSize,
     second_size : 1 .. MaxSize,
     interpolation : Interpolations,
     second_interpolation : SecondInterpolations]

NoTwoWay ==
    [kind |-> "none", size |-> 0, second_size |-> 0,
     interpolation |-> "none", second_interpolation |-> "none"]

NoImage == [size |-> <<0, 0>>, hist |-> <<>>]

\* a source image of height h and width w
SourceImage(h, w) == [size |-> <<h, w>>, hist |-> <<>>]

\* F.resized_crop(img, i, j, h, w, size, interpolation): the region of img
\* with top-left corner (i, j), height h and width w, resampled to size
ResizedCrop(img, i, j, h, w, size, interpolation) ==
    [size |-> <<size, size>>,
     hist |-> Append(img.hist, [region |-> <<i, j, h, w>>, of |-> img.size,
                                size |-> <<size, size>>,
                                interpolation |-> interpolation])]

\* F.resize(img, size, interpolation, max_size, antialias): the whole of img
\* resampled to size
Resize(img, size, interpolation) ==
    ResizedCrop(img, 0, 0, img.size[1], img.size[2], size, interpolation)

TwoWayFresh ==
    /\ wpc = "idle"
    /\ wimg = NoImage
    /\ out1 = NoImage
    /\ out2 = NoImage

TwoWayInit == wcfg \in TwoWays /\ TwoWayFresh

TwoWayIdle == wcfg = NoTwoWay /\ TwoWayFresh

\* TwoWayResize.forward, lines 138-149
TwoWayResizeForward ==
    /\ wcfg.kind = "TwoWayResize"
    /\ \E h \in 1 .. MaxImg, w \in 1 .. MaxImg :
         LET img0 == SourceImage(h, w)
             img == Resize(img0, wcfg.size, wcfg.interpolation)
             second_img == Resize(img, wcfg.second_size, wcfg.second_interpolation)
         IN  /\ wimg' = img0
             /\ out1' = img
             /\ out2' = second_img
    /\ wpc' = "returned"
    /\ UNCHANGED wcfg
    /\ UNCHANGED notTwoWay

\* RandomResizedCrop.get_params: a crop that lies inside the image
CropParams(img) ==
    { <<i, j, h, w>> \in (0 .. img.size[1]) \X (0 .. img.size[2])
                         \X (1 .. img.size[1]) \X (1 .. img.size[2]) :
        i + h <= img.size[1] /\ j + w <= img.size[2] }

\* TwoWayRandomResizedCrop.__call__, lines 184-199
TwoWayCropCall ==
    /\ wcfg.kind = "TwoWayRandomResizedCrop"
    /\ \E h0 \in 1 .. MaxImg, w0 \in 1 .. MaxImg :
         LET img == SourceImage(h0, w0)
         IN  \E p \in CropParams(img) :
               /\ wimg' = img
               /\ out1' = ResizedCrop(img, p[1], p[2], p[3], p[4],
                                      wcfg.size, wcfg.interpolation)
               /\ out2' = ResizedCrop(img, p[1], p[2], p[3], p[4],
                                      wcfg.second_size, wcfg.second_interpolation)
    /\ wpc' = "returned"
    /\ UNCHANGED wcfg
    /\ UNCHANGED notTwoWay

TwoWayNext == TwoWayResizeForward \/ TwoWayCropCall

(***************************************************************************)
(* map_pixels                                                              *)
(* A pixel value is a number of tenths; a mapped value a number of         *)
(* hundredths.                                                             *)
(***************************************************************************)

\* LOGIT_LAPLACE_EPS = 0.1, in tenths
LogitLaplaceEpsTenths == 1

\* one, in tenths
OneTenths == 10

Dtypes == {"float32", "float64", "float16", "int64", "uint8", "bool"}

Shapes ==
    {<<>>} \cup {<<n>> : n \in 1 .. MaxShapeDim}
           \cup {<<n, m>> : n \in 1 .. MaxShapeDim, m \in 1 .. MaxShapeDim}

\* the tensors map_pixels is called with; every element holds the same value
PixelTensors == [dtype : Dtypes, shape : Shapes, value : 0 .. MaxPix]

NoPixels == [dtype |-> "none", shape |-> <<>>, value |-> 0]

PixelsFresh ==
    /\ ppc = "idle"
    /\ px = NoPixels
    /\ pout = NoPixels
    /\ perr = "none"

\* mutant of DtypeIsFloat: every floating-point dtype passes
DtypeIsFloating(x) == x.dtype \in {"float32", "float64", "float16"}

\* line 23: x.dtype != torch.float fails; torch.float is torch.float32
DtypeIsFloat(x) == x.dtype = "float32"

\* line 26: (1 - 2 * LOGIT_LAPLACE_EPS) * x + LOGIT_LAPLACE_EPS
Affine(x) ==
    [dtype |-> x.dtype, shape |-> x.shape,
     value |-> (OneTenths - 2 * LogitLaplaceEpsTenths) * x.value
               + LogitLaplaceEpsTenths * OneTenths]

\* map_pixels is called
MapPixelsCall ==
    /\ ppc \in {"idle", "returned", "raised"}
    /\ px' \in PixelTensors
    /\ pout' = NoPixels
    /\ perr' = "none"
    /\ ppc' = "called"
    /\ UNCHANGED notPixels

\* map_pixels, lines 23-24: the dtype check
MapPixelsCheck ==
    /\ ppc = "called"
    /\ IF DtypeIsFloat(px)
       THEN ppc' = "checked" /\ UNCHANGED perr
       ELSE ppc' = "raised" /\ perr' = "ValueError"
    /\ UNCHANGED <<px, pout>>
    /\ UNCHANGED notPixels

\* map_pixels, line 26: the affine image
MapPixelsReturn ==
    /\ ppc = "checked"
    /\ pout' = Affine(px)
    /\ ppc' = "returned"
    /\ UNCHANGED <<px, perr>>
    /\ UNCHANGED notPixels

PixelsNext == MapPixelsCall \/ MapPixelsCheck \/ MapPixelsReturn

(***************************************************************************)
(* MaskedImageModelingTransform                                            *)
(* A transformed value is the operation applied and the image (or the grid) *)
(* it was applied to.                                                       *)
(***************************************************************************)

\* the fields set by __init__ (lines 218-263): resize_func by is_train, the
\* two sizes and interpolations, the generator's window and target
MIMs ==
    [is_train : BOOLEAN,
     encoder_input_size : {MaxSize},
     codebook_input_size : {1},
     encoder_interpolation : {"bicubic"},
     codebook_interpolation : {"lanczos"},
     mask_window_size : {MaxWindow},
     mask_num_patches : {1}]

NoMIM ==
    [is_train |-> FALSE, encoder_input_size |-> 0, codebook_input_size |-> 0,
     encoder_interpolation |-> "none", codebook_interpolation |-> "none",
     mask_window_size |-> 0, mask_num_patches |-> 0]

\* the keys of the mapping transform returns
Keys == {"image", "image_for_codebook", "image_patches_mask"}

\* output = {}
EmptyDict == [key \in {} |-> <<>>]

\* the arguments of __call__: a list of 0..MaxBatch images, or one image
ImageLists ==
    UNION { [1 .. n -> { SourceImage(h, w) : h \in 1 .. MaxImg, w \in 1 .. MaxImg }]
            : n \in 0 .. MaxBatch }

NoImages == [list |-> FALSE, items |-> <<>>]

MIMFresh ==
    /\ ipc = "idle"
    /\ images = NoImages
    /\ idx = 0
    /\ ioutput = EmptyDict
    /\ generator_calls = 0

MIMInit == icfg \in MIMs /\ MIMFresh

MIMIdle == icfg = NoMIM /\ MIMFresh

\* self.common_transform(image), lines 233-240: the image (converted to RGB,
\* which keeps its geometry) through resize_func, which is
\* TwoWayRandomResizedCrop when is_train and TwoWayResize otherwise
CommonTransform(image, p) ==
    IF icfg.is_train
    THEN << ResizedCrop(image, p[1], p[2], p[3], p[4],
                        icfg.encoder_input_size, icfg.encoder_interpolation),
            ResizedCrop(image, p[1], p[2], p[3], p[4],
                        icfg.codebook_input_size, icfg.codebook_interpolation) >>
    ELSE LET img == Resize(image, icfg.encoder_input_size, icfg.encoder_interpolation)
         IN  << img,
                Resize(img, icfg.codebook_input_size, icfg.codebook_interpolation) >>

\* the crop parameters resize_func draws: get_params when is_train, none
\* otherwise
DrawnCrops(image) ==
    IF icfg.is_train THEN CropParams(image)
    ELSE { <<0, 0, image.size[1], image.size[2]>> }

\* self.image_transform, lines 242-250
ImageTransform(img) == [op |-> "ToTensor, Normalize", of |-> img]

\* self.codebook_transform, lines 252-257
CodebookTransform(img) == [op |-> "ToTensor, map_pixels", of |-> img]

\* a grid self.masked_position_generator() can return: cells of the window,
\* at most mask_num_patches of them
GeneratedMasks ==
    { m \in SUBSET ((0 .. icfg.mask_window_size - 1) \X (0 .. icfg.mask_window_size - 1)) :
        Cardinality(m) <= icfg.mask_num_patches }

\* torch.from_numpy(self.masked_position_generator()): the grid, and which
\* call of the generator returned it
FromNumpy(m, call) == [op |-> "from_numpy", of |-> m, call |-> call]

\* transform, lines 265-271
Transform(image, p, m, call) ==
    LET c == CommonTransform(image, p)
    IN  [image |-> ImageTransform(c[1]),
         image_for_codebook |-> CodebookTransform(c[2]),
         image_patches_mask |-> FromNumpy(m, call)]

\* lines 278-281: every key of the transformed output gets a list in output,
\* created when the key is new, and the value is appended to it
Collect(out, transformed_output) ==
    [key \in DOMAIN out \cup DOMAIN transformed_output |->
        Append(IF key \in DOMAIN out THEN out[key] ELSE <<>>,
               transformed_output[key])]

\* __call__ is called, lines 273-275
MIMCall ==
    /\ ipc = "idle"
    /\ \/ /\ images' \in [list : {TRUE}, items : ImageLists]
          /\ ipc' = "loop"
       \/ /\ images' \in [list : {FALSE},
                          items : { l \in ImageLists : Len(l) = 1 }]
          /\ ipc' = "single"
    /\ idx' = 0
    /\ ioutput' = EmptyDict
    /\ generator_calls' = 0
    /\ UNCHANGED icfg
    /\ UNCHANGED notMIM

\* __call__, lines 276-281: one iteration of the for loop
MIMLoop ==
    /\ ipc = "loop"
    /\ idx < Len(images.items)
    /\ LET image == images.items[idx + 1]
       IN  \E p \in DrawnCrops(image), m \in GeneratedMasks :
             ioutput' = Collect(ioutput, Transform(image, p, m, generator_calls + 1))
    /\ generator_calls' = generator_calls + 1
    /\ idx' = idx + 1
    /\ UNCHANGED <<icfg, ipc, images>>
    /\ UNCHANGED notMIM

\* __call__, line 282: the for loop is over
MIMListReturn ==
    /\ ipc = "loop"
    /\ idx = Len(images.items)
    /\ ipc' = "returned"
    /\ UNCHANGED <<icfg, images, idx, ioutput, generator_calls>>
    /\ UNCHANGED notMIM

\* __call__, lines 283-284: one image
MIMSingle ==
    /\ ipc = "single"
    /\ LET image == images.items[1]
       IN  \E p \in DrawnCrops(image), m \in GeneratedMasks :
             ioutput' = Transform(image, p, m, generator_calls + 1)
    /\ generator_calls' = generator_calls + 1
    /\ ipc' = "returned"
    /\ UNCHANGED <<icfg, images, idx>>
    /\ UNCHANGED notMIM

MIMNext == MIMCall \/ MIMLoop \/ MIMListReturn \/ MIMSingle

(***************************************************************************)
(* Specifications                                                          *)
(***************************************************************************)

InitMask == MaskInit /\ TransformerIdle /\ TwoWayIdle /\ PixelsFresh /\ MIMIdle

SpecMask == InitMask /\ [][MaskNext]_vars

\* a call runs to its end: the interpreter always takes the next step
FairSpecMask == SpecMask /\ WF_vars(MaskNext)

InitTransformer ==
    TransformerInit /\ MaskIdle /\ TwoWayIdle /\ PixelsFresh /\ MIMIdle

SpecTransformer == InitTransformer /\ [][TransformerNext]_vars

InitTwoWay == TwoWayInit /\ MaskIdle /\ TransformerIdle /\ PixelsFresh /\ MIMIdle

SpecTwoWay == InitTwoWay /\ [][TwoWayNext]_vars

InitPixels == PixelsFresh /\ MaskIdle /\ TransformerIdle /\ TwoWayIdle /\ MIMIdle

SpecPixels == InitPixels /\ [][PixelsNext]_vars

InitMIM == MIMInit /\ MaskIdle /\ TransformerIdle /\ TwoWayIdle /\ PixelsFresh

SpecMIM == InitMIM /\ [][MIMNext]_vars

(***************************************************************************)
(* Claims about MaskingGenerator                                           *)
(***************************************************************************)

\* C1: in every state of a call, after every accepted placement and in the
\* grid returned, the number of set cells is at most num_masking_patches
\* and at most height * width.
C1_CountWithinTarget ==
    /\ Cardinality(mask) <= gen.num_masking_patches
    /\ Cardinality(mask) <= gen.height * gen.width

\* a block was just accepted and it filled the grid up to the target
C1_Witness ==
    /\ mpc = "ret"
    /\ placed # NoBlock
    /\ mask_count > 0
    /\ Cardinality(mask) = gen.num_masking_patches

\* the steps a call has left at most: every step of a running call lowers it
Variant ==
    (gen.num_masking_patches - mask_count) * (NumAttempts + 4)
    + CASE mpc = "loop" -> NumAttempts + 3
        [] mpc = "mask" -> NumAttempts + 2 - attempt
        [] mpc = "ret" -> 1
        [] OTHER -> 0

\* C2: __call__ terminates: every step of a running call strictly lowers a
\* natural-valued variant (a return of _mask either raises the count or
\* leaves the loop), _mask makes at most 10 attempts, and nothing is raised.
C2_Terminates ==
    [][ /\ mpc \in {"loop", "mask", "ret"} =>
            /\ Variant \in Nat
            /\ Variant' \in Nat
            /\ Variant' < Variant
        /\ mpc = "ret" /\ mpc' = "loop" => mask_count' > mask_count
        /\ mpc = "ret" /\ mpc' = "done" => delta = 0
        /\ attempt' <= NumAttempts
        /\ mpc' # "raised" ]_vars

\* a call has ended early, with a partial grid: ten attempts were rejected
C2_Witness ==
    /\ mpc = "done"
    /\ delta = 0
    /\ 0 < mask_count
    /\ mask_count < gen.num_masking_patches

\* some draw of one more attempt on the current grid would be accepted
CanPlace ==
    \E s \in DrawnShapes[gen.min_num_patches, Budget(Cardinality(mask))] :
        /\ Fits(s[1], s[2])
        /\ \E top \in 0 .. (gen.height - s[1]), left \in 0 .. (gen.width - s[2]) :
             LET new == Cardinality(Block(top, left, s[1], s[2]) \ mask)
             IN  0 < new /\ new <= Budget(Cardinality(mask))

\* C3 as stated: the grid returned holds num_masking_patches set cells
\* whenever the block rules can still reach it, and falls short only when no
\* further placement is possible.
C3_Original ==
    mpc = "done" =>
        \/ Cardinality(mask) = gen.num_masking_patches
        \/ ~CanPlace

\* C3 as amended: the grid returned holds exactly num_masking_patches set
\* cells unless the last call of _mask returned 0, and _mask returns 0 only
\* after all 10 attempts were rejected; the count then stays below the
\* target whether or not a further placement was possible.
C3_Amended ==
    /\ mpc = "done" =>
          /\ Cardinality(mask) = mask_count
          /\ \/ mask_count = gen.num_masking_patches
             \/ mask_count < gen.num_masking_patches /\ delta = 0
    /\ mpc = "ret" /\ delta = 0 => attempt = NumAttempts

\* a grid returned short of the target although a placement was possible
C3_Witness ==
    /\ mpc = "done"
    /\ delta = 0
    /\ mask_count < gen.num_masking_patches
    /\ CanPlace

\* the budget _mask was called with is the remaining budget of the grid
BudgetIsRemaining == max_mask_patches = Budget(Cardinality(mask))

PlacedBlock(b) == Block(b.top, b.left, b.h, b.w)

\* C15: one invocation of _mask makes at most 10 attempts and accepts at
\* most one block.  An attempt either rejects its block and leaves the grid
\* and delta unchanged, or accepts a block lower than the grid and narrower
\* than the grid, lying inside the grid, with a net-new cell count n such
\* that 0 < n <= remaining budget, sets exactly those n cells, and then
\* _mask returns n at once.  _mask returns 0, with the grid as it was called
\* with, exactly when no attempt was accepted, which takes all 10 attempts,
\* and the outer loop then stops.
C15_OneBlock ==
    [][ /\ mpc = "mask" =>
            /\ delta = 0
            /\ attempt < NumAttempts
            /\ attempt' = attempt + 1
            /\ IF placed' = NoBlock
               THEN /\ mask' = mask
                    /\ delta' = 0
                    /\ mpc' = IF attempt' = NumAttempts THEN "ret" ELSE "mask"
               ELSE LET new == PlacedBlock(placed') \ mask
                        n == Cardinality(new)
                    IN  /\ placed'.h < gen.height
                        /\ placed'.w < gen.width
                        /\ PlacedBlock(placed') \subseteq
                              (0 .. gen.height - 1) \X (0 .. gen.width - 1)
                        /\ 0 < n
                        /\ n <= max_mask_patches
                        /\ mask' \ mask = new
                        /\ mask \subseteq mask'
                        /\ delta' = n
                        /\ mpc' = "ret"
        /\ mpc = "ret" =>
            /\ delta = 0 <=> placed = NoBlock
            /\ delta = 0 => attempt = NumAttempts
            /\ delta = 0 => mpc' = "done"
            /\ mask' = mask ]_vars

\* a block was accepted after a rejected attempt, over cells that were
\* partly set already
C15_Witness ==
    /\ mpc = "ret"
    /\ attempt >= 2
    /\ placed # NoBlock
    /\ 0 < delta
    /\ delta < placed.h * placed.w

(***************************************************************************)
(* Claims about Transformer and TransformerDecoder                         *)
(***************************************************************************)

\* the arguments agree on the batch size
ShapeConsistent == inp.Bt = inp.B

\* C4 as stated: with either value of pass_pos_and_query, a call with
\* shape-consistent arguments (and at least one decoder layer) runs the
\* encoder and the decoder and raises nothing.
C4_BothModesRun ==
    ShapeConsistent /\ tcfg.num_decoder_layers >= 1 => tpc # "raised"

\* C5 as stated: with N >= 1 decoder layers, forward returns
\* [N, B, Q, d_model] with intermediate capture and [1, B, Q, d_model]
\* without it.
C5_ReturnedShape ==
    tpc = "returned" /\ tcfg.num_decoder_layers >= 1 =>
        hs.shape = << IF tcfg.return_intermediate_dec
                      THEN tcfg.num_decoder_layers ELSE 1,
                      inp.B, inp.Q, tcfg.d_model >>

\* tgt with the first i layers applied
LayerTerm(i) == <<"tgt">> \o [j \in 1 .. i |-> "layer"]

Capturing == tcfg.return_intermediate_dec /\ tcfg.decoder_norm

\* the captured list holds the normalized output of every layer in layer
\* order, and the final output is its last entry and no other
Captured ==
    /\ Len(intermediate) = tcfg.num_decoder_layers
    /\ \A i \in 1 .. Len(intermediate) :
          intermediate[i].term = Append(LayerTerm(i), "norm")
    /\ Len(intermediate) >= 1 => intermediate[Len(intermediate)] = output
    /\ Cardinality({i \in 1 .. Len(intermediate) : intermediate[i] = output})
          = IF tcfg.num_decoder_layers = 0 THEN 0 ELSE 1

\* C6 as stated: with capture and a final normalization, for every number
\* of layers N the decoder returns a list of exactly N entries, entry i the
\* normalized output of layer i, the last one the final output, once.
C6_Original ==
    Capturing =>
        /\ tpc \in {"decoded", "returned"} => Captured
        /\ tpc = "raised" => dec = NoCall

\* C6 as amended: the same for every N >= 1; with N = 0 the decoder does
\* not return (the pop of the empty list raises IndexError).
C6_Amended ==
    Capturing =>
        /\ tpc \in {"decoded", "returned"} =>
              tcfg.num_decoder_layers >= 1 /\ Captured
        /\ tpc = "raised" /\ dec # NoCall =>
              tcfg.num_decoder_layers = 0 /\ err = "IndexError"

\* the decoder has returned a captured list of two or more layers
C6_Witness ==
    /\ tpc = "decoded"
    /\ Capturing
    /\ tcfg.num_decoder_layers >= 2
    /\ Len(intermediate) = tcfg.num_decoder_layers

\* C7 as stated: the decoder never runs with a fused memory whose sequence
\* length differs from the decoder target's (the assertion stops the call).
C7_Original ==
    tpc \in {"dec", "decoded", "returned"} =>
        dec.memory.shape[1] = dec.tgt.shape[1]

\* C7 as amended: the assertions compare the batch sizes (axis 1) of the
\* fused memory, the refined text memory and the decoder target: the
\* decoder runs only when they are equal, and an assertion fails only when
\* they differ, never on the sequence lengths.
C7_Amended ==
    /\ tpc \in {"ready", "dec", "decoded", "returned"} =>
          /\ img_memory.shape[2] = text_memory.shape[2]
          /\ text_memory.shape[2] = tgt.shape[2]
    /\ err = "AssertionError" =>
          ~(inp.B = inp.Bt /\ img_memory.shape[2] = tgt.shape[2])

\* the decoder runs although the two sequence lengths differ
C7_Witness ==
    /\ tpc = "dec"
    /\ dec.memory.shape[1] # dec.tgt.shape[1]

\* the length of the fused sequence: H * W image positions and T text ones
FusedLen == inp.H * inp.W + inp.T

\* C8: with pass_pos_and_query, the fused source, the fused key-padding
\* mask and the padded positional embedding have sequence length H*W + T, so
\* has the encoder output, and so have the memory, memory_key_padding_mask
\* and pos the decoder is called with.
C8_FusedLengths ==
    tcfg.pass_pos_and_query =>
        /\ tpc \in {"fused", "encoded", "split"} => src.shape[1] = FusedLen
        /\ tpc \in {"fused", "encoded", "split", "ready", "dec", "decoded", "returned"} =>
              /\ tmask.shape[2] = FusedLen
              /\ pos_embed.shape[1] = FusedLen
        /\ tpc \in {"encoded", "split", "ready", "dec", "decoded", "returned"} =>
              img_memory.shape[1] = FusedLen
        /\ tpc \in {"dec", "decoded", "returned"} =>
              /\ dec.memory.shape[1] = FusedLen
              /\ dec.memory_key_padding_mask.shape[2] = FusedLen
              /\ dec.pos.shape[1] = FusedLen

\* the decoder is called on a fusion of several image and text positions
C8_Witness ==
    /\ tpc = "dec"
    /\ tcfg.pass_pos_and_query
    /\ inp.T >= 1
    /\ inp.H * inp.W >= 2
    /\ dec.memory.shape[1] = FusedLen

\* C12 as stated: the refined text memory taken from the encoder output is
\* the trailing text_len positions of the fused output, so its sequence
\* length is text_len, for every text_len >= 0 and every image length.
C12_TextMemoryLength ==
    tpc \in {"split", "ready", "dec", "decoded", "returned"} =>
        text_memory.shape[1] = inp.T

\* C13 as stated: with a final normalization and capture, the last captured
\* entry is the final normalization applied to the already normalized
\* output of the last layer.
C13_Original ==
    Capturing /\ tpc \in {"decoded", "returned"} =>
        intermediate[Len(intermediate)].term
            = LayerTerm(tcfg.num_decoder_layers) \o <<"norm", "norm">>

\* C13 as amended: with a final normalization and capture, the tensor passed
\* from each layer to the next is the un-normalized layer output, every
\* captured entry is that output normalized once, and the entry that
\* replaces the last captured one is the final normalization applied to the
\* un-normalized output of the last layer: normalized once, not twice.
C13_Amended ==
    Capturing =>
        /\ tpc = "dec" =>
              /\ output.term = LayerTerm(layer)
              /\ \A i \in 1 .. Len(intermediate) :
                    intermediate[i].term = Append(LayerTerm(i), "norm")
        /\ tpc \in {"decoded", "returned"} =>
              /\ Len(intermediate) >= 1
              /\ intermediate[Len(intermediate)].term
                    = Append(LayerTerm(tcfg.num_decoder_layers), "norm")
              /\ hs.slices[Len(hs.slices)]
                    = Append(LayerTerm(tcfg.num_decoder_layers), "norm")
              /\ output.term = Append(LayerTerm(tcfg.num_decoder_layers), "norm")

\* the last entry of a captured list of two layers was replaced by the final
\* output, which is normalized once
C13_Witness ==
    /\ tpc = "returned"
    /\ Capturing
    /\ tcfg.num_decoder_layers = 2
    /\ hs.slices[2] = <<"tgt", "layer", "layer", "norm">>
    /\ hs.slices[1] = <<"tgt", "layer", "norm">>

(***************************************************************************)
(* Claims about the two-way transforms and map_pixels                      *)
(***************************************************************************)

\* C9 as stated: both transforms render both returned images from the same
\* source image with the same geometric parameters; the second image is not
\* derived from the first rendered image.
C9_SameSource ==
    wpc = "returned" =>
        /\ Len(out1.hist) = 1
        /\ Len(out2.hist) = 1
        /\ out1.hist[1].of = wimg.size
        /\ out2.hist[1].of = wimg.size
        /\ out1.hist[1].region = out2.hist[1].region

\* C10: map_pixels raises ValueError and returns nothing for every input
\* whose dtype is not torch.float, whatever its shape; for a torch.float
\* input it returns (1 - 2 * eps) * x + eps; the arithmetic happens only
\* after the check has passed.
C10_MapPixels ==
    /\ ppc = "raised" =>
          /\ px.dtype # "float32"
          /\ perr = "ValueError"
          /\ pout = NoPixels
    /\ ppc \in {"checked", "returned"} => px.dtype = "float32" /\ perr = "none"
    /\ ppc = "checked" => pout = NoPixels
    /\ ppc = "returned" =>
          /\ pout.shape = px.shape
          /\ pout.value = 8 * px.value + 10

\* an integer tensor of rank two was rejected
C10_Witness ==
    /\ ppc = "raised"
    /\ px.dtype = "int64"
    /\ Len(px.shape) = 2

(***************************************************************************)
(* Claims about MaskedImageModelingTransform                               *)
(***************************************************************************)

\* the source image a transformed image was rendered from
SourceSize(v) == v.of.hist[1].of

\* C11 as stated: on a list of n images, for every n including 0, __call__
\* returns a mapping with the three entries image, image_for_codebook and
\* image_patches_mask, each a list of length n whose k-th element comes
\* from the k-th input image, with one generator call per image; on a
\* single image it returns the three entries un-listed.
C11_ListOutput ==
    ipc = "returned" =>
        LET n == Len(images.items)
        IN  /\ DOMAIN ioutput = Keys
            /\ generator_calls = n
            /\ IF images.list
               THEN /\ \A key \in Keys : Len(ioutput[key]) = n
                    /\ \A k \in 1 .. n :
                          /\ SourceSize(ioutput.image[k]) = images.items[k].size
                          /\ SourceSize(ioutput.image_for_codebook[k])
                                = images.items[k].size
                          /\ ioutput.image_patches_mask[k].call = k
               ELSE /\ SourceSize(ioutput.image) = images.items[1].size
                    /\ SourceSize(ioutput.image_for_codebook) = images.items[1].size
                    /\ ioutput.image_patches_mask.call = 1

====
